---- MODULE Spec2Model ----
(***************************************************************************)
(* A model of the PartDB KiCad plugin: the grouping of board footprints,   *)
(* the PartDB client's part lookup, the background synchronisation run of  *)
(* the plugin window and the write-back of storage locations to the board. *)
(*                                                                         *)
(* Python strings are sequences of character codes, so that comparison,    *)
(* lower() and strip() are computed as Python computes them.  An Optional  *)
(* value is a sequence of length at most one: <<>> is None and <<x>> is x. *)
(***************************************************************************)
EXTENDS Integers, Sequences, FiniteSets, TLC

None == <<>>
Some(x) == <<x>>
IsNone(o) == o = <<>>
Val(o) == o[1]

Range(s) == {s[i] : i \in 1..Len(s)}

(* ---------------------------- strings --------------------------------- *)

EmptyStr == <<>>
\* " "  "1"  "1 "  "A"  "B"  "X"  "Y"  "a"  "b"  "None"  ", "
sSP == <<32>>
s1 == <<49>>
s1sp == <<49, 32>>
sA == <<65>>
sB == <<66>>
sX == <<88>>
sY == <<89>>
sa == <<97>>
sb == <<98>>
sNone == <<78, 111, 110, 101>>
sCommaSpace == <<44, 32>>

\* str.lower() on one character and on a string (ASCII letters)
LowerChar(c) == IF c >= 65 /\ c <= 90 THEN c + 32 ELSE c
Lower(s) == [i \in 1..Len(s) |-> LowerChar(s[i])]

\* str.strip(): leading and trailing whitespace removed
IsSpace(c) == c \in {9, 10, 11, 12, 13, 32}
RECURSIVE LStrip(_)
LStrip(s) == IF s # <<>> /\ IsSpace(Head(s)) THEN LStrip(Tail(s)) ELSE s
RECURSIVE RStrip(_)
RStrip(s) ==
    IF s # <<>> /\ IsSpace(s[Len(s)]) THEN RStrip(SubSeq(s, 1, Len(s) - 1)) ELSE s
Strip(s) == RStrip(LStrip(s))

\* Python's < on two strings: lexicographic by code point, a proper prefix first
RECURSIVE StrLess(_, _)
StrLess(a, b) ==
    IF b = <<>> THEN FALSE
    ELSE IF a = <<>> THEN TRUE
    ELSE IF Head(a) # Head(b) THEN Head(a) < Head(b)
    ELSE StrLess(Tail(a), Tail(b))

\* Python's < on two tuples of equal length whose components are strings:
\* the first pair of unequal components decides
RECURSIVE TupleLess(_, _)
TupleLess(a, b) ==
    IF a = <<>> \/ b = <<>> THEN FALSE
    ELSE IF Head(a) # Head(b) THEN StrLess(Head(a), Head(b))
    ELSE TupleLess(Tail(a), Tail(b))

\* bool as a sort-key component: False < True
BoolKey(b) == IF b THEN <<1>> ELSE <<0>>

\* str(n) for a natural number
RECURSIVE IntToStr(_)
IntToStr(n) ==
    IF n < 10 THEN <<48 + n>> ELSE IntToStr(n \div 10) \o <<48 + (n % 10)>>

\* sep.join(parts)
RECURSIVE Join(_, _)
Join(sep, parts) ==
    IF parts = <<>> THEN <<>>
    ELSE IF Len(parts) = 1 THEN parts[1]
    ELSE parts[1] \o sep \o Join(sep, Tail(parts))

(* ----------------------- sorted(items, key=...) ------------------------ *)

\* sorted() is stable: an item goes after every item whose key is not greater.
\* items is a sequence of <<sortkey, payload>>.
RECURSIVE InsertSorted(_, _)
InsertSorted(s, x) ==
    IF s = <<>> THEN <<x>>
    ELSE IF TupleLess(x[1], Head(s)[1]) THEN <<x>> \o s
    ELSE <<Head(s)>> \o InsertSorted(Tail(s), x)
RECURSIVE SortedByKey(_)
SortedByKey(items) ==
    IF items = <<>> THEN <<>>
    ELSE InsertSorted(SortedByKey(SubSeq(items, 1, Len(items) - 1)), items[Len(items)])

(* ------------------ defaultdict(list), insertion ordered --------------- *)

\* A dict is a sequence of <<key, list>> in insertion order.
DictHas(d, key) == \E i \in 1..Len(d) : d[i][1] = key
\* groups[key] = [x] in place of groups[key].append(x)
DictAppendOverwrites(d, key, x) ==
    IF DictHas(d, key)
    THEN [i \in 1..Len(d) |-> IF d[i][1] = key THEN <<key, <<x>>>> ELSE d[i]]
    ELSE Append(d, <<key, <<x>>>>)
DictAppend(d, key, x) ==
    IF DictHas(d, key)
    THEN [i \in 1..Len(d) |-> IF d[i][1] = key THEN <<key, Append(d[i][2], x)>> ELSE d[i]]
    ELSE Append(d, <<key, <<x>>>>)

(* --------------------------- board footprints -------------------------- *)

\* A board footprint: its MPN, PartDB_ID and Storage_Location fields (None when
\* the footprint has no such field, else the field's text), its two attributes.
\* A footprint's reference designator is its index on the board.

STORAGE_LOCATION_FIELD_NAME == "Storage_Location"
PARTDB_ID_FIELD_NAME == "PartDB_ID"
MPN_FIELD_NAME == "MPN"

\* footprint.GetFieldByName(name): the field's text, or None
GetFieldByName(fp, name) ==
    IF name = MPN_FIELD_NAME THEN fp.mpn
    ELSE IF name = PARTDB_ID_FIELD_NAME THEN fp.id
    ELSE fp.sl

\* FootprintData.mpn / FootprintData.partdb_id: None when the field is missing
\* or its text is empty
mpn(fp) ==
    LET mpn_field == GetFieldByName(fp, MPN_FIELD_NAME)
    IN  IF IsNone(mpn_field) THEN None
        ELSE IF Val(mpn_field) # EmptyStr THEN Some(Val(mpn_field)) ELSE None
partdb_id(fp) ==
    LET partdb_field == GetFieldByName(fp, PARTDB_ID_FIELD_NAME)
    IN  IF IsNone(partdb_field) THEN None
        ELSE IF Val(partdb_field) # EmptyStr THEN Some(Val(partdb_field)) ELSE None

\* The footprints _load_board_footprints wraps: those not excluded from the BOM,
\* in board order
RECURSIVE AcceptedFrom(_, _)
AcceptedFrom(b, i) ==
    IF i > Len(b) THEN <<>>
    ELSE (IF ~b[i].exBOM THEN <<i>> ELSE <<>>) \o AcceptedFrom(b, i + 1)
Accepted(b) == AcceptedFrom(b, 1)

\* PartDBPlugin._load_board_footprints: footprints_data_grouped, a dict from
\* (mpn, partdb_id) to the list of footprints with that key
PluginKey(fp) == <<mpn(fp), partdb_id(fp)>>
RECURSIVE GroupInto(_, _, _)
GroupInto(d, b, fps) ==
    IF fps = <<>> THEN d
    ELSE GroupInto(DictAppend(d, PluginKey(b[Head(fps)]), Head(fps)), b, Tail(fps))
load_board_footprints(b) == GroupInto(<<>>, b, Accepted(b))

\* The footprints BomDialog.on_refresh selects
RECURSIVE SelectedFrom(_, _)
SelectedFrom(b, i) ==
    IF i > Len(b) THEN <<>>
    ELSE (IF b[i].dnp \/ b[i].exBOM THEN <<>> ELSE <<i>>) \o SelectedFrom(b, i + 1)
on_refresh_selected(b) == SelectedFrom(b, 1)

\* UI_test.group_footprints: the key is the stripped text of the two fields, ""
\* for a missing or empty one; the groups are returned sorted by the lower-cased
\* key
FieldValue(f) == IF IsNone(f) \/ Val(f) = EmptyStr THEN EmptyStr ELSE Strip(Val(f))
UiKey(fp) == <<FieldValue(fp.mpn), FieldValue(fp.id)>>
RECURSIVE UiGroupInto(_, _, _)
UiGroupInto(d, b, fps) ==
    IF fps = <<>> THEN d
    ELSE UiGroupInto(DictAppend(d, UiKey(b[Head(fps)]), Head(fps)), b, Tail(fps))
UiSortKey(k) == <<Lower(k[1]), Lower(k[2])>>
group_footprints(b, fp_selected) ==
    LET groups == UiGroupInto(<<>>, b, fp_selected)
        items == [i \in 1..Len(groups) |-> <<UiSortKey(groups[i][1]), groups[i]>>]
        srt == SortedByKey(items)
    IN  [i \in 1..Len(srt) |-> srt[i][2]]

\* FootprintTablePanel.update_table's iteration order over the dict's items:
\* sorted by (mpn is None, mpn, partdb_id is None, partdb_id)
OptText(o) == IF IsNone(o) THEN <<>> ELSE Val(o)
TableSortKey(k) ==
    <<BoolKey(IsNone(k[1])), OptText(k[1]), BoolKey(IsNone(k[2])), OptText(k[2])>>
sorted_items(d) ==
    LET items == [i \in 1..Len(d) |-> <<TableSortKey(d[i][1]), d[i]>>]
        srt == SortedByKey(items)
    IN  [i \in 1..Len(srt) |-> srt[i][2]]

(* ------------------------------ PartDB --------------------------------- *)

\* An HTTP exchange for GET parts/{id}: whether the transport delivered a
\* response, its status and its body.  A body is not JSON ("invalid"), a JSON
\* array, or a JSON object; an object may have a partLots list, whose items
\* are lot objects that may have a storage_location with a name.
BodyInvalid == [kind |-> "invalid", hasLots |-> FALSE, lots |-> <<>>]
BodyArray == [kind |-> "array", hasLots |-> FALSE, lots |-> <<>>]
BodyObject(hasLots, lots) == [kind |-> "object", hasLots |-> hasLots, lots |-> lots]
Lot(name, amount) == [hasLoc |-> TRUE, name |-> name, amount |-> amount]
LotNoLoc(amount) == [hasLoc |-> FALSE, name |-> EmptyStr, amount |-> amount]

\* Response.raise_for_status
RaisesForStatus(status) == status >= 400 /\ status < 600

\* APIClient.get with APIClient._handle_response: the parsed JSON, or an
\* exception
ClientGet(resp) ==
    IF resp.transport # "ok" THEN [raised |-> TRUE, data |-> BodyInvalid]
    ELSE IF RaisesForStatus(resp.status) THEN [raised |-> TRUE, data |-> BodyInvalid]
    ELSE IF resp.status = 204 THEN [raised |-> FALSE, data |-> BodyObject(FALSE, <<>>)]
    ELSE IF resp.body.kind = "invalid" THEN [raised |-> TRUE, data |-> BodyInvalid]
    ELSE [raised |-> FALSE, data |-> resp.body]

\* Part.from_dict: only the keys present in the data become attributes; oid is
\* the identity of the instance built
from_dict(data, oid) ==
    [oid |-> oid,
     hasLots |-> data.kind = "object" /\ data.hasLots,
     lots |-> IF data.kind = "object" /\ data.hasLots THEN data.lots ELSE <<>>]

\* get_part_from_id without its try/except: what the client raises escapes
get_part_from_id_uncaught(resp, oid) ==
    LET r == ClientGet(resp)
    IN  IF r.raised THEN [raised |-> TRUE, val |-> None]
        ELSE [raised |-> FALSE, val |-> Some(from_dict(r.data, oid))]
\* PartDB.get_part_from_id: a Part, or None when anything raised inside the
\* try; the call itself does not raise
get_part_from_id(resp, oid) ==
    LET r == ClientGet(resp)
    IN  IF r.raised THEN [raised |-> FALSE, val |-> None]
        ELSE [raised |-> FALSE, val |-> Some(from_dict(r.data, oid))]

(* --------------------------- FootprintData ----------------------------- *)

\* The outcome of a property read: it raised, or it returned val (an Optional)
Raised == [raised |-> TRUE, val |-> None]
Returned(v) == [raised |-> FALSE, val |-> v]

\* FootprintData.storage_location for the attached part p (an Optional Part)
storage_location(p) ==
    IF IsNone(p) THEN Returned(None)
    ELSE IF ~Val(p).hasLots THEN Raised
    ELSE LET part_lots == Val(p).lots
         IN  IF Len(part_lots) > 0
             THEN IF \E i \in 1..Len(part_lots) : ~part_lots[i].hasLoc
                  THEN Raised
                  ELSE Returned(Some(Join(sCommaSpace,
                           [i \in 1..Len(part_lots) |-> part_lots[i].name])))
             ELSE Returned(None)

\* FootprintData.amount
RECURSIVE SumAmounts(_)
SumAmounts(lots) == IF lots = <<>> THEN 0 ELSE Head(lots).amount + SumAmounts(Tail(lots))
amount(p) ==
    IF IsNone(p) THEN Returned(None)
    ELSE IF ~Val(p).hasLots THEN Raised
    ELSE LET part_lots == Val(p).lots
         IN  IF Len(part_lots) > 0
             THEN Returned(Some(IntToStr(SumAmounts(part_lots))))
             ELSE Returned(None)

(* ------------------------- the plugin window --------------------------- *)

\* FootprintTablePanel.update_table: one row per group in sorted order, with
\* one child row per footprint.  A property read that raises ends the render
\* with the rows appended so far.
OrEmpty(o) == IF IsNone(o) THEN EmptyStr ELSE Val(o)
ChildRow(b, parts, f) ==
    [ref |-> f, mpn |-> OrEmpty(mpn(b[f])), id |-> OrEmpty(partdb_id(b[f])),
     sl |-> OrEmpty(storage_location(parts[f]).val),
     amt |-> OrEmpty(amount(parts[f]).val)]
RECURSIVE ChildRows(_, _, _)
ChildRows(b, parts, fps) ==
    IF fps = <<>> THEN [rows |-> <<>>, raised |-> FALSE]
    ELSE IF storage_location(parts[Head(fps)]).raised \/ amount(parts[Head(fps)]).raised
         THEN [rows |-> <<>>, raised |-> TRUE]
    ELSE LET rest == ChildRows(b, parts, Tail(fps))
         IN  [rows |-> <<ChildRow(b, parts, Head(fps))>> \o rest.rows,
              raised |-> rest.raised]
GroupRow(b, parts, item) ==
    LET footprints == item[2]
        first == parts[footprints[1]]
        headRaised == storage_location(first).raised \/ amount(first).raised
        children == IF headRaised THEN [rows |-> <<>>, raised |-> TRUE]
                    ELSE ChildRows(b, parts, footprints)
    IN  [row |-> [refs |-> footprints, qty |-> Len(footprints),
                  mpn |-> OrEmpty(item[1][1]), id |-> OrEmpty(item[1][2]),
                  sl |-> IF headRaised THEN EmptyStr
                         ELSE OrEmpty(storage_location(first).val),
                  amt |-> IF headRaised THEN EmptyStr ELSE OrEmpty(amount(first).val),
                  children |-> children.rows],
         raised |-> children.raised]
RECURSIVE RenderRows(_, _, _)
RenderRows(b, parts, items) ==
    IF items = <<>> THEN [rows |-> <<>>, raised |-> FALSE]
    ELSE LET g == GroupRow(b, parts, Head(items))
         IN  IF g.raised THEN [rows |-> <<g.row>>, raised |-> TRUE]
             ELSE LET rest == RenderRows(b, parts, Tail(items))
                  IN  [rows |-> <<g.row>> \o rest.rows, raised |-> rest.raised]
update_table(b, d, parts) == RenderRows(b, parts, sorted_items(d))

\* FootprintData.update_storage_location on footprint fp with attached part p:
\* the footprint afterwards, or the read of storage_location raised
update_storage_location(fp, p) ==
    LET r == storage_location(p)
    IN  IF r.raised THEN [raised |-> TRUE, fp |-> fp]
        ELSE IF ~IsNone(GetFieldByName(fp, STORAGE_LOCATION_FIELD_NAME))
        THEN [raised |-> FALSE,
              fp |-> [fp EXCEPT !.sl = Some(IF ~IsNone(r.val) /\ Val(r.val) # EmptyStr
                                            THEN Val(r.val) ELSE EmptyStr)]]
        ELSE [raised |-> FALSE,
              fp |-> [fp EXCEPT !.sl = Some(IF IsNone(r.val) THEN sNone ELSE Val(r.val))]]

\* The loop of PartDBPlugin._on_save over the footprints in dict order: the
\* board afterwards, and whether an update raised (the loop stops there)
RECURSIVE SaveLoop(_, _, _)
\* the writes made before a failing update are undone
RECURSIVE SaveLoopRollsBack(_, _, _)
SaveLoopRollsBack(b, parts, fps) ==
    IF fps = <<>> THEN [raised |-> FALSE, board |-> b]
    ELSE LET u == update_storage_location(b[Head(fps)], parts[Head(fps)])
         IN  IF u.raised THEN [raised |-> TRUE, board |-> b]
             ELSE LET r == SaveLoopRollsBack([b EXCEPT ![Head(fps)] = u.fp],
                                             parts, Tail(fps))
                  IN  IF r.raised THEN [raised |-> TRUE, board |-> b] ELSE r
SaveLoop(b, parts, fps) ==
    IF fps = <<>> THEN [raised |-> FALSE, board |-> b]
    ELSE LET u == update_storage_location(b[Head(fps)], parts[Head(fps)])
         IN  IF u.raised THEN [raised |-> TRUE, board |-> b]
             ELSE SaveLoop([b EXCEPT ![Head(fps)] = u.fp], parts, Tail(fps))
RECURSIVE Flatten(_)
Flatten(d) == IF d = <<>> THEN <<>> ELSE Head(d)[2] \o Flatten(Tail(d))

(* ------------------------------ bounds --------------------------------- *)

\* footprints on the board of the window specification
NumFp == 2
\* synchronisation runs started in one window session
MaxRuns == 2

sU == <<117>>
sT == <<116>>
\* what the user may have typed into the URL and token controls
Inputs == {<<sSP, sT>>, <<sU, EmptyStr>>, <<sU, sT>>}

\* the boards the plugin window is opened on: footprints with or without an
\* MPN, a PartDB_ID and a Storage_Location field, and one excluded from the BOM
WinFootprints ==
    [mpn : {Some(sa), Some(sB)},
     id : {None, Some(s1)},
     exBOM : {FALSE}, dnp : {FALSE},
     sl : {None, Some(sX)}]
    \cup {[mpn |-> None, id |-> Some(s1), exBOM |-> TRUE, dnp |-> FALSE, sl |-> Some(sX)],
          [mpn |-> None, id |-> Some(EmptyStr), exBOM |-> FALSE, dnp |-> TRUE, sl |-> None]}
WinBoards == [1..NumFp -> WinFootprints]

\* what the PartDB server may answer to one GET parts/{id}
RespFail == [transport |-> "fail", status |-> 0, body |-> BodyInvalid]
Resp(status, body) == [transport |-> "ok", status |-> status, body |-> body]
WinResponses ==
    {RespFail,
     Resp(204, BodyInvalid),
     Resp(200, BodyObject(TRUE, <<Lot(sX, 2), Lot(sY, 3)>>))}

(* ------------------------------- state --------------------------------- *)

VARIABLES
    board,       \* the host board's footprints
    groups,      \* PartDBPlugin.footprints_data_grouped
    parts,       \* FootprintData._partdb_part of each footprint
    table,       \* the rows of FootprintTablePanel.tree
    syncBtn,     \* ApiConfigPanel.sync_btn is enabled
    status,      \* StatusBarPanel.status_text
    destroyed,   \* the frame was destroyed
    threads,     \* the _sync_thread threads started, in order
    callQueue,   \* the wx.CallAfter calls not yet run
    deadCalls,   \* callbacks that ran on the destroyed frame
    config,      \* the content of config.json, None when there is no file
    \* the grouping functions applied to a board (SpecGroup)
    gBoard,      \* the footprints given
    gUi,         \* what group_footprints returned, None before the call
    gPlugin,     \* footprints_data_grouped after _load_board_footprints
    gRows,       \* the dict items in update_table's order
    \* one lookup of the PartDB client (SpecClient)
    cResp,       \* the HTTP exchange of the lookup
    cStage,      \* "request", "fetched", "read"
    cPart,       \* the outcome of get_part_from_id
    cSl,         \* the outcome of FootprintData.storage_location
    cAmt,        \* the outcome of FootprintData.amount
    \* config.json and the plugin window's API panel (SpecConfig)
    kFile,       \* the content of config.json, None when there is no file
    kWin,        \* "none", "open", or "failed" when the constructor raised
    kLoaded,     \* the outcome of _load_config, None before the call
    kCtrl        \* the texts of api_url_ctrl and token_ctrl

wvars == <<board, groups, parts, table, syncBtn, status, destroyed,
           threads, callQueue, deadCalls, config>>
gvars == <<gBoard, gUi, gPlugin, gRows>>
cvars == <<cResp, cStage, cPart, cSl, cAmt>>
kvars == <<kFile, kWin, kLoaded, kCtrl>>
vars == <<wvars, gvars, cvars, kvars>>

\* the variables of a specification that does not use them
GroupIdle == gBoard = <<>> /\ gUi = None /\ gPlugin = None /\ gRows = None
ClientIdle ==
    cResp = None /\ cStage = "idle" /\ cPart = None /\ cSl = None /\ cAmt = None
ConfigIdle ==
    kFile = None /\ kWin = "idle" /\ kLoaded = None /\ kCtrl = <<EmptyStr, EmptyStr>>

\* PartDBPlugin.__init__ on board b: the window as constructed
Init ==
    /\ board \in WinBoards
    /\ groups = load_board_footprints(board)
    /\ parts = [f \in 1..NumFp |-> None]
    /\ table = update_table(board, groups, parts).rows
    /\ syncBtn = TRUE
    /\ status = "Ready"
    /\ destroyed = FALSE
    /\ threads = <<>>
    /\ callQueue = <<>>
    /\ deadCalls = 0
    /\ config = None
    /\ GroupIdle /\ ClientIdle /\ ConfigIdle

\* the texts of the two controls as typed
get_values_untrimmed(url, token) == <<url, token>>
\* ApiConfigPanel.get_values
get_values(url, token) == <<Strip(url), Strip(token)>>

\* the button left enabled when a run is started
EnabledWhileSyncingKept == TRUE
\* sync_btn.Enable(False) when a run is started
EnabledWhileSyncing == FALSE

\* a thread about to run _sync_thread
\* client: self.partdb was set by this thread
\* args: the (api_url, token) the thread was started with
NewThread(api_url, token) ==
    [pc |-> "start", client |-> FALSE, gi |-> 1, fj |-> 1, cur |-> None, calls |-> <<>>,
     args |-> <<api_url, token>>]
Running(t) == t.pc \in {"start", "loop", "attach"}

\* PartDBPlugin._on_api_panel_action("save_config", values)
on_save_config(url, token) ==
    /\ ~destroyed
    /\ config' = Some(get_values(url, token))
    /\ status' = "Configuration saved"
    /\ UNCHANGED <<board, groups, parts, table, syncBtn, destroyed,
                   threads, callQueue, deadCalls>>
    /\ UNCHANGED <<gvars, cvars, kvars>>

\* PartDBPlugin._on_api_panel_action("sync", values)
on_sync_click(url, token) ==
    LET values == get_values(url, token)
    IN  /\ ~destroyed
        /\ syncBtn
        /\ IF values[1] = EmptyStr
           THEN /\ status' = "Error: API URL is empty"
                /\ UNCHANGED <<syncBtn, threads>>
           ELSE IF values[2] = EmptyStr
           THEN /\ status' = "Error: API Token is empty"
                /\ UNCHANGED <<syncBtn, threads>>
           ELSE /\ Len(threads) < MaxRuns
                /\ syncBtn' = EnabledWhileSyncing
                /\ status' = "Synchronizing..."
                /\ threads' = Append(threads, NewThread(values[1], values[2]))
        /\ UNCHANGED <<board, groups, parts, table, destroyed, callQueue,
                       deadCalls, config>>
        /\ UNCHANGED <<gvars, cvars, kvars>>

\* _sync_thread, PartDB(bearer, base_url): the client is built, or building it
\* raises and the except branch posts _on_sync_error
sync_thread_start(t) ==
    /\ threads[t].pc = "start"
    /\ \E ok \in BOOLEAN :
          IF ok
          THEN /\ threads' = [threads EXCEPT ![t].pc = "loop", ![t].client = TRUE]
               /\ UNCHANGED callQueue
          ELSE /\ threads' = [threads EXCEPT ![t].pc = "failed"]
               /\ callQueue' = Append(callQueue, "error")
    /\ UNCHANGED <<board, groups, parts, table, syncBtn, status,
                   destroyed, deadCalls, config>>
    /\ UNCHANGED <<gvars, cvars, kvars>>

\* the thread takes another turn of the loop after posting _on_sync_complete
ThreadGoesOn == "loop"
\* wx.CallAfter(self._on_sync_complete) is the last statement of the try
\* block: the thread's function returns after it
ThreadReturns == "done"

\* _sync_thread, one turn of the loop over footprints_data_grouped.items():
\* a group without an ID is skipped, else its part is fetched; after the last
\* group the thread posts _on_sync_complete.  An exception in the loop body
\* reaches the except branch, which posts _on_sync_error.
Call(gi, id, resp, p) == [gi |-> gi, id |-> id, resp |-> resp, part |-> p]
\* no group is skipped
FalsyNever(o) == FALSE
\* "not partdb_id" on an Optional[str]: None and "" are falsy
Falsy(o) == IsNone(o) \/ Val(o) = EmptyStr
sync_thread_loop(t) ==
    LET th == threads[t]
    IN  /\ th.pc = "loop"
        /\ IF th.gi > Len(groups)
           THEN /\ threads' = [threads EXCEPT ![t].pc = ThreadReturns]
                /\ callQueue' = Append(callQueue, "complete")
           ELSE LET id == groups[th.gi][1][2]
                IN  IF Falsy(id)
                    THEN /\ threads' = [threads EXCEPT ![t].gi = th.gi + 1]
                         /\ UNCHANGED callQueue
                    ELSE \E resp \in WinResponses :
                           LET r == get_part_from_id(resp, <<t, th.gi>>)
                               partdb_part == r.val
                               called == Append(th.calls, Call(th.gi, OptText(id), resp, r.val))
                           IN  IF r.raised
                               THEN /\ threads' = [threads EXCEPT ![t].pc = "failed"]
                                    /\ callQueue' = Append(callQueue, "error")
                               ELSE /\ UNCHANGED callQueue
                                    /\ threads' = [threads EXCEPT ![t] =
                                         IF IsNone(partdb_part)
                                         THEN [th EXCEPT !.gi = th.gi + 1,
                                                         !.calls = called]
                                         ELSE [th EXCEPT !.pc = "attach", !.fj = 1,
                                                         !.cur = partdb_part,
                                                         !.calls = called]]
        /\ UNCHANGED <<board, groups, parts, table, syncBtn, status,
                       destroyed, deadCalls, config>>
        /\ UNCHANGED <<gvars, cvars, kvars>>

\* the part is set on the first footprint of the group only
sync_thread_attach_first_only(t) ==
    LET th == threads[t]
        footprints == groups[th.gi][2]
    IN  /\ th.pc = "attach"
        /\ parts' = [parts EXCEPT ![footprints[1]] = th.cur]
        /\ threads' = [threads EXCEPT ![t] =
              [th EXCEPT !.pc = "loop", !.gi = th.gi + 1, !.fj = 1, !.cur = None]]
        /\ UNCHANGED <<board, groups, table, syncBtn, status, destroyed,
                       callQueue, deadCalls, config>>
        /\ UNCHANGED <<gvars, cvars, kvars>>
\* _sync_thread, fp.partdb_part = partdb_part for the next footprint of the group
sync_thread_attach(t) ==
    LET th == threads[t]
        footprints == groups[th.gi][2]
    IN  /\ th.pc = "attach"
        /\ parts' = [parts EXCEPT ![footprints[th.fj]] = th.cur]
        /\ threads' = [threads EXCEPT ![t] =
              IF th.fj < Len(footprints)
              THEN [th EXCEPT !.fj = th.fj + 1]
              ELSE [th EXCEPT !.pc = "loop", !.gi = th.gi + 1, !.fj = 1, !.cur = None]]
        /\ UNCHANGED <<board, groups, table, syncBtn, status, destroyed,
                       callQueue, deadCalls, config>>
        /\ UNCHANGED <<gvars, cvars, kvars>>

\* PartDBPlugin._on_sync_complete, run by wx.CallAfter on the UI thread
on_sync_complete ==
    /\ callQueue # <<>> /\ Head(callQueue) = "complete"
    /\ callQueue' = Tail(callQueue)
    /\ IF destroyed
       THEN /\ deadCalls' = deadCalls + 1
            /\ UNCHANGED <<table, status, syncBtn>>
       ELSE LET r == update_table(board, groups, parts)
            IN  /\ table' = r.rows
                /\ IF r.raised
                   THEN UNCHANGED <<status, syncBtn>>
                   ELSE /\ status' = "Synchronization completed successfully"
                        /\ syncBtn' = TRUE
                /\ UNCHANGED deadCalls
    /\ UNCHANGED <<board, groups, parts, destroyed, threads, config>>
    /\ UNCHANGED <<gvars, cvars, kvars>>

\* PartDBPlugin._on_sync_error, run by wx.CallAfter on the UI thread
on_sync_error ==
    /\ callQueue # <<>> /\ Head(callQueue) = "error"
    /\ callQueue' = Tail(callQueue)
    /\ IF destroyed
       THEN /\ deadCalls' = deadCalls + 1
            /\ UNCHANGED <<status, syncBtn>>
       ELSE /\ status' = "Error: sync failed"
            /\ syncBtn' = TRUE
            /\ UNCHANGED deadCalls
    /\ UNCHANGED <<board, groups, parts, table, destroyed, threads, config>>
    /\ UNCHANGED <<gvars, cvars, kvars>>

\* PartDBPlugin._on_save
on_save ==
    /\ ~destroyed
    /\ LET r == SaveLoop(board, parts, Flatten(groups))
       IN  /\ board' = r.board
           /\ status' = IF r.raised THEN "Error: save failed"
                         ELSE "Saved to board successfully"
    /\ UNCHANGED <<groups, parts, table, syncBtn, destroyed, threads, callQueue,
                   deadCalls, config>>
    /\ UNCHANGED <<gvars, cvars, kvars>>

\* PartDBPlugin._on_close
on_close ==
    /\ ~destroyed
    /\ destroyed' = TRUE
    /\ UNCHANGED <<board, groups, parts, table, syncBtn, status, threads,
                   callQueue, deadCalls, config>>
    /\ UNCHANGED <<gvars, cvars, kvars>>

Next ==
    \/ \E v \in Inputs : on_save_config(v[1], v[2])
    \/ \E v \in Inputs : on_sync_click(v[1], v[2])
    \/ \E t \in 1..Len(threads) : sync_thread_start(t)
    \/ \E t \in 1..Len(threads) : sync_thread_loop(t)
    \/ \E t \in 1..Len(threads) : sync_thread_attach(t)
    \/ on_sync_complete
    \/ on_sync_error
    \/ on_save
    \/ on_close

Spec == Init /\ [][Next]_vars

(* --------------------- the grouping functions alone -------------------- *)

\* footprints on the board given to the grouping functions
GroupFp == 2

GroupFootprints ==
    [mpn : {None, Some(sa), Some(sB), Some(sb)},
     id : {None, Some(EmptyStr), Some(s1), Some(s1sp)},
     exBOM : BOOLEAN, dnp : BOOLEAN,
     sl : {None}]
GroupBoards == [1..GroupFp -> GroupFootprints]
WindowIdle ==
    /\ board = <<>> /\ groups = <<>> /\ parts = <<>> /\ table = <<>>
    /\ syncBtn = FALSE /\ status = "" /\ destroyed = FALSE /\ threads = <<>>
    /\ callQueue = <<>> /\ deadCalls = 0 /\ config = None

InitGroup ==
    /\ gBoard \in GroupBoards
    /\ gUi = None /\ gPlugin = None /\ gRows = None
    /\ WindowIdle /\ ClientIdle /\ ConfigIdle

\* UI_test: group_footprints(fp_selected) on the footprints of the board
demo_group ==
    /\ gUi = None
    /\ gUi' = Some(group_footprints(gBoard, [i \in 1..Len(gBoard) |-> i]))
    /\ UNCHANGED <<gBoard, gPlugin, gRows, wvars, cvars, kvars>>

\* plugin: _load_board_footprints, then update_table's order of the groups
plugin_load ==
    /\ gPlugin = None
    /\ gPlugin' = Some(load_board_footprints(gBoard))
    /\ gRows' = Some(sorted_items(load_board_footprints(gBoard)))
    /\ UNCHANGED <<gBoard, gUi, wvars, cvars, kvars>>

NextGroup == demo_group \/ plugin_load
SpecGroup == InitGroup /\ [][NextGroup]_vars

(* ------------------------ the PartDB client alone ---------------------- *)

\* lots of one part record
MaxLots == 2

Lots == {Lot(sA, 2), Lot(sB, 3), Lot(sA, 3), LotNoLoc(1)}
LotLists == UNION {[1..n -> Lots] : n \in 0..MaxLots}
Bodies ==
    {BodyInvalid, BodyArray, BodyObject(FALSE, <<>>)}
    \cup {BodyObject(TRUE, l) : l \in LotLists}
Statuses == {200, 204, 304, 404, 500}
ClientResponses == {RespFail} \cup {Resp(st, body) : st \in Statuses, body \in Bodies}

InitClient ==
    /\ cResp \in {Some(r) : r \in ClientResponses}
    /\ cStage = "request"
    /\ cPart = None /\ cSl = None /\ cAmt = None
    /\ WindowIdle /\ GroupIdle /\ ConfigIdle

\* PartDB.get_part_from_id(id) against the exchange cResp
client_fetch ==
    /\ cStage = "request"
    /\ cPart' = get_part_from_id(Val(cResp), 0)
    /\ cStage' = "fetched"
    /\ UNCHANGED <<cResp, cSl, cAmt, wvars, gvars, kvars>>

\* FootprintData.storage_location and .amount of a footprint with that part
read_properties ==
    /\ cStage = "fetched"
    /\ ~cPart.raised
    /\ cSl' = Some(storage_location(cPart.val))
    /\ cAmt' = Some(amount(cPart.val))
    /\ cStage' = "read"
    /\ UNCHANGED <<cResp, cPart, wvars, gvars, kvars>>

NextClient == client_fetch \/ read_properties
SpecClient == InitClient /\ [][NextClient]_vars

(* ------------------------- the configuration file ---------------------- *)

\* 'https://partdb.example.com/api'
DEFAULT_API_URL ==
    <<104, 116, 116, 112, 115, 58, 47, 47, 112, 97, 114, 116, 100, 98, 46, 101, 120, 97, 109, 112, 108, 101, 46, 99, 111, 109, 47, 97, 112, 105>>
sUsp == <<32, 117>>

\* What config.json may hold: text that is not JSON, a JSON value that is not
\* an object, or an object with or without the keys api_url and token
FileInvalid == [kind |-> "invalid", api_url |-> None, token |-> None]
FileArray == [kind |-> "array", api_url |-> None, token |-> None]
FileObject(api_url, token) == [kind |-> "object", api_url |-> api_url, token |-> token]
FileContents ==
    {FileInvalid, FileArray}
    \cup {FileObject(u, t) : u \in {None, Some(EmptyStr), Some(sU), Some(sUsp)},
                             t \in {None, Some(EmptyStr), Some(sT)}}

\* config.get(key, '')
DictGet(o) == IF IsNone(o) THEN EmptyStr ELSE Val(o)
\* PartDBPlugin._load_config on the file: the (api_url, token) returned, or
\* the call raised (json.load on text that is not JSON, .get on a value that
\* is not an object)
load_config(file) ==
    IF ~IsNone(file)
    THEN IF Val(file).kind = "invalid" THEN [raised |-> TRUE, val |-> <<>>]
         ELSE IF Val(file).kind # "object" THEN [raised |-> TRUE, val |-> <<>>]
         ELSE [raised |-> FALSE,
               val |-> <<DictGet(Val(file).api_url), DictGet(Val(file).token)>>]
    ELSE [raised |-> FALSE, val |-> <<DEFAULT_API_URL, EmptyStr>>]
\* PartDBPlugin._save_config: the file written
save_config(api_url, token) == Some(FileObject(Some(api_url), Some(token)))

InitConfig ==
    /\ kFile \in {None} \cup {Some(c) : c \in FileContents}
    /\ kWin = "none"
    /\ kLoaded = None
    /\ kCtrl = <<EmptyStr, EmptyStr>>
    /\ WindowIdle /\ GroupIdle /\ ClientIdle

\* SyncStorageLocation.Run: PartDBPlugin() loads the configuration and shows
\* the loaded values in the API panel; when _load_config raises, the
\* constructor raises and there is no window
plugin_run ==
    /\ kWin \in {"none", "failed"}
    /\ LET r == load_config(kFile)
       IN  /\ kLoaded' = Some(r)
           /\ IF r.raised
              THEN kWin' = "failed" /\ UNCHANGED kCtrl
              ELSE kWin' = "open" /\ kCtrl' = r.val
    /\ UNCHANGED <<kFile, wvars, gvars, cvars>>

\* the user types into the URL and token controls
edit_values(url, token) ==
    /\ kWin = "open"
    /\ kCtrl' = <<url, token>>
    /\ UNCHANGED <<kFile, kWin, kLoaded, wvars, gvars, cvars>>

\* Save Configuration: _on_api_panel_action("save_config", get_values())
config_save ==
    /\ kWin = "open"
    /\ LET values == get_values(kCtrl[1], kCtrl[2])
       IN  kFile' = save_config(values[1], values[2])
    /\ UNCHANGED <<kWin, kLoaded, kCtrl, wvars, gvars, cvars>>

\* PartDBPlugin._on_close
window_close ==
    /\ kWin = "open"
    /\ kWin' = "none"
    /\ kLoaded' = None
    /\ kCtrl' = <<EmptyStr, EmptyStr>>
    /\ UNCHANGED <<kFile, wvars, gvars, cvars>>

NextConfig ==
    \/ plugin_run
    \/ \E v \in Inputs : edit_values(v[1], v[2])
    \/ config_save
    \/ window_close
SpecConfig == InitConfig /\ [][NextConfig]_vars

(* ------------------------------- claims -------------------------------- *)

\* d, a sequence of <<key, members>>, partitions the footprints fps of board b
\* by Key: each footprint is a member exactly once, nothing else is a member, no
\* group is empty, no two groups have the same key, every member has its
\* group's key
Occurrences(d, f) == Cardinality({p \in 1..Len(Flatten(d)) : Flatten(d)[p] = f})
IsPartition(d, b, fps, Key(_)) ==
    /\ \A f \in fps : Occurrences(d, f) = 1
    /\ \A i \in 1..Len(d) :
          /\ d[i][2] # <<>>
          /\ \A j \in 1..Len(d[i][2]) : d[i][2][j] \in fps /\ Key(b[d[i][2][j]]) = d[i][1]
    /\ \A i, j \in 1..Len(d) : i # j => d[i][1] # d[j][1]

\* C1: group_footprints and _load_board_footprints partition the footprints
\* they accept: every accepted footprint is in exactly one group, once; no
\* group is empty; every member has its group's (MPN, PartDB_ID) key; the
\* union of the groups is the accepted input
C1_GroupingIsPartition ==
    /\ gUi # None =>
          IsPartition(Val(gUi), gBoard, 1..Len(gBoard), UiKey)
    /\ gPlugin # None =>
          IsPartition(Val(gPlugin), gBoard, Range(Accepted(gBoard)), PluginKey)
C1_Witness ==
    /\ gUi # None /\ gPlugin # None
    /\ Len(Val(gUi)) = 1 /\ Len(Val(gUi)[1][2]) = 2
    /\ Len(Val(gPlugin)) = 2

\* C2: in one sync run get_part_from_id is called at most once per inventory
\* ID, also when footprints with the same PartDB_ID have different MPNs
C2_OneCallPerId ==
    \A t \in 1..Len(threads) :
       \A i, j \in 1..Len(threads[t].calls) :
          i # j => threads[t].calls[i].id # threads[t].calls[j].id

\* runs started whose completion callback has not run yet
InFlight ==
    Cardinality({t \in 1..Len(threads) : Running(threads[t])}) + Len(callQueue)

\* C3: at most one sync run is in flight at any time, and the Synchronize
\* button is disabled from the start of a run until its callback has run
C3_OneRunInFlight == InFlight <= 1 /\ (InFlight = 1 => ~syncBtn)
C3_Witness ==
    /\ Len(threads) = 2 /\ InFlight = 1
    /\ threads[1].pc = "done" /\ threads[2].pc = "attach"

\* C4: no UI action reads the footprints' parts while the background task is
\* writing them: Save to Board does not run while a thread is attaching
SaveStatuses == {"Saved to board successfully", "Error: save failed"}
SaveStep == status' \in SaveStatuses /\ (status' # status \/ board' # board)
C4_NoReadWhileWriting ==
    [][SaveStep => ~\E t \in 1..Len(threads) : threads[t].pc = "attach"]_vars

\* an exchange that carries a well-formed part record
WellFormed(resp) ==
    /\ resp.transport = "ok"
    /\ resp.status >= 200 /\ resp.status < 300 /\ resp.status # 204
    /\ resp.body.kind = "object" /\ resp.body.hasLots
    /\ \A i \in 1..Len(resp.body.lots) : resp.body.lots[i].hasLoc

\* C5: get_part_from_id never raises, and returns None on a transport failure,
\* a non-2xx status and a payload that is not a well-formed part record
C5_NoneUnlessWellFormed ==
    cStage \in {"fetched", "read"} =>
        /\ ~cPart.raised
        /\ ~IsNone(cPart.val) => WellFormed(Val(cResp))

\* the groups of footprints_data_grouped that have an inventory ID
HasId(gi) == ~IsNone(groups[gi][1][2]) /\ Val(groups[gi][1][2]) # EmptyStr
\* the groups a thread has dealt with so far
Visited(th) ==
    IF th.pc = "done" THEN 1..Len(groups)
    ELSE IF th.pc = "loop" THEN 1..(th.gi - 1)
    ELSE IF th.pc = "attach" THEN 1..th.gi
    ELSE {}

\* C6: a failed fetch is isolated: a run that built its client visits every
\* group and ends with _on_sync_complete, every group with an ID it has visited
\* was fetched exactly once whatever the fetches before it returned, and when
\* the run is done every group whose fetch returned a part has that part on
\* all its footprints
C6_FailureIsolated ==
    \A t \in 1..Len(threads) :
       LET th == threads[t]
       IN  /\ th.pc = "failed" => ~th.client
           /\ \A gi \in Visited(th) :
                 HasId(gi) <=>
                    Cardinality({c \in 1..Len(th.calls) : th.calls[c].gi = gi}) = 1
           /\ (th.pc = "done" /\ t = Len(threads)) =>
                 \A c \in 1..Len(th.calls) :
                    ~IsNone(th.calls[c].part) =>
                       \A j \in 1..Len(groups[th.calls[c].gi][2]) :
                          parts[groups[th.calls[c].gi][2][j]] = th.calls[c].part
C6_Witness ==
    \E t \in 1..Len(threads) :
       /\ threads[t].pc = "done" /\ t = Len(threads)
       /\ Len(threads[t].calls) = 2
       /\ IsNone(threads[t].calls[1].part)
       /\ ~IsNone(threads[t].calls[2].part)

\* C7: Save to Board leaves a footprint without a resolved storage location
\* untouched: no Storage_Location field is created and an existing one keeps
\* its value
Unresolved(f) == IsNone(storage_location(parts[f]).val)
C7_SaveLeavesUnresolvedUntouched ==
    [][\A f \in 1..Len(board) : Unresolved(f) => board'[f].sl = board[f].sl]_vars

\* C8: in the output of group_footprints and in update_table's row order, a
\* group with an absent or empty key component comes after every group with a
\* value in that component; the empty-key group is last
UiAbsent(k, c) == k[c] = EmptyStr
PluginAbsent(k, c) == IsNone(k[c])
AbsentAfterPresent(d, Absent(_, _)) ==
    \A i, j \in 1..Len(d) : \A c \in {1, 2} :
       (i < j /\ Absent(d[i][1], c)) => Absent(d[j][1], c)
C8_AbsentSortsLast ==
    /\ gUi # None => AbsentAfterPresent(Val(gUi), UiAbsent)
    /\ gRows # None => AbsentAfterPresent(Val(gRows), PluginAbsent)

\* C9: both group sequences are ascending in the lower-cased (MPN, ID) pair,
\* and the members of a group are in encounter order
LowerUiKey(k) == <<Lower(k[1]), Lower(k[2])>>
LowerPluginKey(k) == <<Lower(OrEmpty(k[1])), Lower(OrEmpty(k[2]))>>
Present(k) == ~IsNone(k[1]) /\ ~IsNone(k[2])
EncounterOrder(d) ==
    \A i \in 1..Len(d) : \A a, c \in 1..Len(d[i][2]) : a < c => d[i][2][a] < d[i][2][c]
C9_AscendingCaseInsensitive ==
    /\ gUi # None =>
          /\ \A i, j \in 1..Len(Val(gUi)) :
                (i < j /\ LowerUiKey(Val(gUi)[i][1]) # LowerUiKey(Val(gUi)[j][1]))
                   => TupleLess(LowerUiKey(Val(gUi)[i][1]), LowerUiKey(Val(gUi)[j][1]))
          /\ EncounterOrder(Val(gUi))
    /\ gRows # None =>
          /\ \A i, j \in 1..Len(Val(gRows)) :
                (/\ i < j
                 /\ Present(Val(gRows)[i][1]) /\ Present(Val(gRows)[j][1])
                 /\ LowerPluginKey(Val(gRows)[i][1]) # LowerPluginKey(Val(gRows)[j][1]))
                   => TupleLess(LowerPluginKey(Val(gRows)[i][1]),
                                LowerPluginKey(Val(gRows)[j][1]))
          /\ EncounterOrder(Val(gRows))

\* the elements of a sequence without repetitions, in order of first occurrence
RECURSIVE Distinct(_)
Distinct(q) ==
    IF q = <<>> THEN <<>>
    ELSE LET front == Distinct(SubSeq(q, 1, Len(q) - 1))
         IN  IF q[Len(q)] \in Range(front) THEN front ELSE Append(front, q[Len(q)])

\* C10: the storage location of a footprint with a part is the distinct lot
\* location names, in lot order, joined by ", ", and None when the part has
\* no lots
C10_DistinctLocationsJoined ==
    (cStage = "read" /\ ~IsNone(cPart.val) /\ ~Val(cSl).raised) =>
        LET lots == Val(cPart.val).lots
        IN  Val(cSl).val =
               IF lots = <<>> THEN None
               ELSE Some(Join(sCommaSpace, Distinct([i \in 1..Len(lots) |-> lots[i].name])))

\* the decimal digits of a natural number, most significant first
RECURSIVE Digits(_)
Digits(n) == IF n < 10 THEN <<48 + n>> ELSE Append(Digits(n \div 10), 48 + (n % 10))
\* the amounts of a part's lots added up from the last lot to the first
RECURSIVE TotalOf(_)
TotalOf(lots) ==
    IF lots = <<>> THEN 0 ELSE TotalOf(SubSeq(lots, 1, Len(lots) - 1)) + lots[Len(lots)].amount

\* C11: reading the quantity of a footprint with a part returns the decimal
\* sum of the amounts of the part's lots, and None (not "0") exactly when the
\* part has no lots; with no part both quantity and storage location are None
C11_QuantityIsLotSum ==
    cStage = "read" =>
        IF IsNone(cPart.val)
        THEN Val(cAmt) = Returned(None) /\ Val(cSl) = Returned(None)
        ELSE LET lots == Val(cPart.val).lots
             IN  /\ ~Val(cAmt).raised
                 /\ IsNone(Val(cAmt).val) <=> lots = <<>>
                 /\ lots # <<>> => Val(cAmt).val = Some(Digits(TotalOf(lots)))

\* C12: every started sync run returns the window to its ready state: once
\* the run's one completion callback has run on the open window, so that no
\* run is in flight any more, the Synchronize button is enabled
C12_ReadyAfterCallback == (~destroyed /\ InFlight = 0) => syncBtn

\* a step of a background thread, and a step in which the event loop runs a
\* posted callback
ThreadStep == threads' # threads /\ Len(threads') = Len(threads)
CallbackStep == callQueue # <<>> /\ callQueue' = Tail(callQueue)

\* C13: the tree rows, the status text and the button's enabled state are
\* changed on the UI thread only: no step of a background thread changes
\* them, and a completion callback runs only when every thread has finished
\* its fetches and writes
C13_UiStateOnUiThreadOnly ==
    [][/\ ThreadStep => UNCHANGED <<table, status, syncBtn>>
       /\ CallbackStep => \A t \in 1..Len(threads) : ~Running(threads[t])]_vars
C13_Witness ==
    /\ status = "Synchronization completed successfully"
    /\ callQueue = <<>>
    /\ \E f \in 1..Len(parts) : ~IsNone(parts[f])
    /\ \E i \in 1..Len(table) : table[i].amt = <<53>>
\* C14: when no sync run is under way, the footprints of a group all carry
\* the same part: none has one, or all have the one Part instance that a run
\* fetched for that group
C14_GroupSharesOnePart ==
    (\A t \in 1..Len(threads) : ~Running(threads[t])) =>
        \A gi \in 1..Len(groups) :
           \A a, b \in Range(groups[gi][2]) :
              /\ parts[a] = parts[b]
              /\ ~IsNone(parts[a]) => Val(parts[a]).oid[2] = gi
C14_Witness ==
    /\ threads # <<>> /\ threads[Len(threads)].pc = "done"
    /\ \E gi \in 1..Len(groups) :
          /\ Len(groups[gi][2]) = 2
          /\ ~IsNone(parts[groups[gi][2][1]])
          /\ parts[groups[gi][2][1]] = parts[groups[gi][2][2]]
\* C15: a sync run fetches nothing for a group without an inventory ID, the
\* footprints of such a group have no part, no storage location and no
\* quantity, and passing such a group does not end the run in the error
\* branch
C15_NoFetchWithoutId ==
    /\ \A t \in 1..Len(threads) :
          /\ \A c \in 1..Len(threads[t].calls) : HasId(threads[t].calls[c].gi)
          /\ threads[t].client => threads[t].pc # "failed"
    /\ \A gi \in 1..Len(groups) :
          ~HasId(gi) =>
             \A f \in Range(groups[gi][2]) :
                /\ IsNone(parts[f])
                /\ storage_location(parts[f]) = Returned(None)
                /\ amount(parts[f]) = Returned(None)
C15_Witness ==
    /\ threads # <<>> /\ threads[Len(threads)].pc = "done"
    /\ Len(groups) = 2
    /\ \E g, h \in 1..Len(groups) :
          /\ ~HasId(g) /\ HasId(h)
          /\ IsNone(parts[groups[g][2][1]])
          /\ ~IsNone(parts[groups[h][2][1]])
    /\ Len(threads[Len(threads)].calls) = 1
\* config.json holds no configuration: text that is not JSON, or a JSON
\* value that is not an object
Malformed(file) == ~IsNone(file) /\ Val(file).kind # "object"

\* C16: loading the configuration never raises, so the window is always
\* constructed, and when the file is absent or malformed the window shows the
\* built-in defaults
C16_LoadConfigNeverFatal ==
    /\ kWin # "failed"
    /\ ~IsNone(kLoaded) =>
          /\ ~Val(kLoaded).raised
          /\ (IsNone(kFile) \/ Malformed(kFile)) =>
                Val(kLoaded).val = <<DEFAULT_API_URL, EmptyStr>>
\* C17: no footprint marked "do not populate" and no footprint marked
\* "exclude from BOM" is a member of a group of footprints_data_grouped
C17_ManagedExcludesFlagged ==
    gPlugin # None =>
        \A f \in Range(Flatten(Val(gPlugin))) : ~gBoard[f].dnp /\ ~gBoard[f].exBOM
\* a footprint whose storage location is resolved: reading it returns a value
Resolved(f) ==
    ~storage_location(parts[f]).raised /\ ~IsNone(storage_location(parts[f]).val)

\* C18: Save to Board leaves every managed footprint that has a resolved
\* storage location with a Storage_Location field holding that value, created
\* when the footprint had none and overwritten otherwise; and no step ever
\* takes a Storage_Location field away from a footprint
C18_SaveWritesResolved ==
    [][/\ SaveStep =>
            \A f \in Range(Flatten(groups)) :
               Resolved(f) => board'[f].sl = storage_location(parts[f]).val
       /\ \A f \in 1..Len(board) : ~IsNone(board[f].sl) => ~IsNone(board'[f].sl)]_vars
\* the position in the save loop's order of the first footprint whose update
\* raises, 0 when none does
FirstFailing ==
    LET fps == Flatten(groups)
        failing == {k \in 1..Len(fps) :
                      update_storage_location(board[fps[k]], parts[fps[k]]).raised}
    IN  IF failing = {} THEN 0 ELSE CHOOSE k \in failing : \A j \in failing : k <= j

\* C19: when the update of a footprint raises during Save to Board, _on_save
\* ends with the error status, the footprints before the failing one keep
\* what was written to them, and the failing footprint and those after it
\* are as they were
C19_SaveFailureKeepsEarlierWrites ==
    [][(SaveStep /\ FirstFailing > 0) =>
          LET fps == Flatten(groups)
          IN  /\ status' = "Error: save failed"
              /\ \A j \in 1..Len(fps) :
                    board'[fps[j]] =
                       IF j < FirstFailing
                       THEN update_storage_location(board[fps[j]], parts[fps[j]]).fp
                       ELSE board[fps[j]]]_vars
C19_Witness ==
    /\ status = "Error: save failed"
    /\ Len(Flatten(groups)) = 2
    /\ board[Flatten(groups)[1]].sl = Some(<<88, 44, 32, 89>>)
    /\ storage_location(parts[Flatten(groups)[2]]).raised
    /\ IsNone(board[Flatten(groups)[2]].sl)
\* two footprints are members of one group of d
SameGroup(d, a, b) ==
    \E i \in 1..Len(d) : a \in Range(d[i][2]) /\ b \in Range(d[i][2])
LowerOpt(o) == IF IsNone(o) THEN None ELSE Some(Lower(Val(o)))

\* C20: two footprints whose MPNs and whose inventory IDs differ at most in
\* letter case are placed in the same group, by group_footprints and by
\* _load_board_footprints
C20_KeyEqualityIgnoresCase ==
    /\ gUi # None =>
          \A a, b \in 1..Len(gBoard) :
             LowerUiKey(UiKey(gBoard[a])) = LowerUiKey(UiKey(gBoard[b]))
                => SameGroup(Val(gUi), a, b)
    /\ gPlugin # None =>
          \A a, b \in Range(Accepted(gBoard)) :
             (/\ LowerOpt(mpn(gBoard[a])) = LowerOpt(mpn(gBoard[b]))
              /\ LowerOpt(partdb_id(gBoard[a])) = LowerOpt(partdb_id(gBoard[b])))
                => SameGroup(Val(gPlugin), a, b)
\* a click on Synchronize that was rejected: it set one of the two warnings
RejectStatuses == {"Error: API URL is empty", "Error: API Token is empty"}
RejectStep == status' \in RejectStatuses /\ status' # status

\* C21: a Synchronize request whose API URL or token is empty after trimming
\* starts nothing: every thread was started with a URL and a token that are
\* not blank, and a rejected click leaves the threads, their fetches, the
\* posted callbacks, the attached parts, the table and the board as they
\* were, with the Synchronize button enabled
C21_BlankRequestRejected ==
    [][/\ \A t \in 1..Len(threads') :
             Strip(threads'[t].args[1]) # EmptyStr /\ Strip(threads'[t].args[2]) # EmptyStr
       /\ RejectStep =>
             /\ UNCHANGED <<threads, callQueue, parts, table, board>>
             /\ syncBtn /\ syncBtn']_vars
C21_Witness ==
    /\ status = "Error: API URL is empty"
    /\ syncBtn
    /\ Len(threads) = 1 /\ threads[1].pc = "done"
    /\ \E f \in 1..Len(parts) : ~IsNone(parts[f])
\* the part of footprint f is replaced in this step by the part that a
\* running thread has just fetched for f's group
AttachedByRun(f) ==
    \E t \in 1..Len(threads) :
       LET th == threads[t]
       IN  /\ th.pc = "attach"
           /\ f \in Range(groups[th.gi][2])
           /\ parts'[f] = th.cur
           /\ th.calls # <<>>
           /\ th.calls[Len(th.calls)].gi = th.gi
           /\ th.calls[Len(th.calls)].part = th.cur
           /\ WellFormed(th.calls[Len(th.calls)].resp)

\* C22: a sync run never detaches a part, and the part of an earlier run is
\* replaced only by the part record that a run fetched for its group: a run that
\* fails, or whose fetch for the group fails (a transport failure, an error
\* status, a payload that is no well-formed part record), leaves the part of
\* the earlier run in place
C22_SyncNeverDetaches ==
    [][\A f \in 1..Len(parts) :
          /\ ~IsNone(parts[f]) => ~IsNone(parts'[f])
          /\ (~IsNone(parts[f]) /\ parts'[f] # parts[f]) => AttachedByRun(f)]_vars
\* C23: no completion callback (_on_sync_complete, _on_sync_error) runs on
\* the frame after _on_close has destroyed it
C23_NoCallbackAfterDestroy == deadCalls = 0
====
